---- MODULE Spec2Model ----
(***************************************************************************)
(* A model of the MIME encoder of enmime: the transfer-encoding classifier *)
(* (encode.go, SelectTransferEncoding), the encoding-aware address list    *)
(* formatter (internal/stringutil/addr.go, EncodeAwareJoinAddress) and the *)
(* part tree serializer (encode.go, Encoder.Encode and its helpers).       *)
(***************************************************************************)
EXTENDS Integers, Sequences, FiniteSets, TLC

VARIABLES
    \* ---- SelectTransferEncoding: one call ----
    content,          \* the []byte argument
    quoteLineBreaks,  \* the bool argument
    te                \* the value returned, "none" before the call returns

clsVars == <<content, quoteLineBreaks, te>>

VARIABLES
    \* ---- EncodeAwareJoinAddress: one call ----
    addrs,        \* the []mail.Address argument
    startColumn,  \* the startColumn argument
    apc,          \* position of the call: "start", "sep", "name", "addr", "done", "failed"
    ai,           \* index of the address the loop is at (1-based)
    col,          \* the function-level variable col (line 31)
    abuf          \* buf: the tokens written so far, each with its length

addrVars == <<addrs, startColumn, apc, ai, col, abuf>>

VARIABLES
    \* ---- Encoder.Encode: one top-level call on a part tree ----
    input,         \* the part tree as the caller built it
    parts,         \* the Part structs, by handle 1..n; the root is 1, nil is 0
    requested,     \* the options the caller passed to NewEncoder
    applied,       \* the options the caller applied to the encoder itself
    enc,           \* the Encoder the caller built
    epc,           \* the caller's position: "new", "built", "running", "returned"
    stack,         \* the Encode calls in progress, the innermost last
    wbuf,          \* the bufio.Writer b: the tokens buffered, not yet in the sink
    werr,          \* the bufio.Writer b: its sticky error, "nil" if none
    sink,          \* the tokens the sink has received
    sinkFaulty,    \* whether writes to the sink can fail in this run
    sinkFailed,    \* whether a write to the sink has failed
    nextBoundary,  \* the number of boundaries the boundary generator has made
    result         \* what the top-level Encode returned, "none" before

encVars == <<input, parts, requested, applied, enc, epc, stack, wbuf, werr, sink,
             sinkFaulty, sinkFailed, nextBoundary, result>>

vars == <<clsVars, addrVars, encVars>>

(***************************************************************************)
(* Transfer encodings (encode.go:21-27).                                   *)
(***************************************************************************)
TE7Bit == "TE7Bit"
TEQuoted == "TEQuoted"
TEBase64 == "TEBase64"

\* encode.go:19
b64Percent == 20

(***************************************************************************)
(* SelectTransferEncoding (encode.go:202-224).                             *)
(***************************************************************************)

\* IsBinaryByte without the exemption of lines 211-213.
IsBinaryByteNoExempt(b, qlb) ==
    (b < 32 \/ 126 < b) /\ b # 9

\* The test of lines 210-213: the byte is counted by the scan.
IsBinaryByte(b, qlb) ==
    /\ (b < 32 \/ 126 < b) /\ b # 9
    /\ ~(~qlb /\ (b = 13 \/ b = 10))

\* ScanFrom with the comparison of line 215 written bincount > threshold.
RECURSIVE ScanFromStrict(_, _, _, _, _)
ScanFromStrict(c, i, bincount, threshold, qlb) ==
    IF i > Len(c)
    THEN IF bincount = 0 THEN TE7Bit ELSE TEQuoted
    ELSE IF IsBinaryByte(c[i], qlb)
         THEN IF bincount + 1 > threshold
              THEN TEBase64
              ELSE ScanFromStrict(c, i + 1, bincount + 1, threshold, qlb)
         ELSE ScanFromStrict(c, i + 1, bincount, threshold, qlb)

\* The for loop of lines 209-219, from index i with the running bincount:
\* it returns TEBase64 from inside the loop as soon as bincount >= threshold,
\* and otherwise falls through to lines 220-223.
RECURSIVE ScanFrom(_, _, _, _, _)
ScanFrom(c, i, bincount, threshold, qlb) ==
    IF i > Len(c)
    THEN IF bincount = 0 THEN TE7Bit ELSE TEQuoted
    ELSE IF IsBinaryByte(c[i], qlb)
         THEN IF bincount + 1 >= threshold
              THEN TEBase64
              ELSE ScanFrom(c, i + 1, bincount + 1, threshold, qlb)
         ELSE ScanFrom(c, i + 1, bincount, threshold, qlb)

SelectTransferEncoding(c, qlb) ==
    IF Len(c) = 0
    THEN TE7Bit
    ELSE ScanFrom(c, 1, 0, (b64Percent * Len(c)) \div 100, qlb)

(***************************************************************************)
(* Inputs of the classifier: every content over ByteValues up to MaxShort  *)
(* bytes, every content over MidBytes up to MaxMid bytes, and every        *)
(* content over LongBytes up to MaxLong bytes (from 10 bytes on the        *)
(* threshold is 2 or more, so the scan can continue past a counted byte).  *)
(***************************************************************************)
MaxShort == 3
MaxMid == 6
MaxLong == 11

\* tab, LF, CR, 0x1F, space, 'a', '~', DEL, 0xE9
ByteValues == {9, 10, 13, 31, 32, 97, 126, 127, 233}
MidBytes == {13, 97, 233}
LongBytes == {97, 233}

SeqsUpTo(S, n) == UNION {[1..k -> S] : k \in 0..n}

ClassifierInputs ==
    SeqsUpTo(ByteValues, MaxShort) \cup SeqsUpTo(MidBytes, MaxMid)
        \cup SeqsUpTo(LongBytes, MaxLong)

\* No part is encoded in the runs of the classifier and of the formatter.
EncIdle ==
    /\ input = <<>> /\ parts = <<>> /\ requested = {} /\ applied = {} /\ enc = "idle"
    /\ epc = "idle" /\ stack = <<>> /\ wbuf = <<>> /\ werr = "nil"
    /\ sink = <<>> /\ sinkFaulty = FALSE /\ sinkFailed = FALSE
    /\ nextBoundary = 0 /\ result = "idle"

\* The address formatter is not called in the runs of the classifier.
AddrIdle ==
    /\ addrs = <<>> /\ startColumn = 0 /\ apc = "idle" /\ ai = 0
    /\ col = 0 /\ abuf = <<>>

\* No classifier call is made in the runs of the other components.
ClassifyIdle == content = <<>> /\ quoteLineBreaks = FALSE /\ te = "idle"

InitClassify ==
    /\ content \in ClassifierInputs
    /\ quoteLineBreaks \in BOOLEAN
    /\ te = "none"
    /\ AddrIdle /\ EncIdle

\* One call of SelectTransferEncoding(content, quoteLineBreaks).
Classify ==
    /\ te = "none"
    /\ te' = SelectTransferEncoding(content, quoteLineBreaks)
    /\ UNCHANGED <<content, quoteLineBreaks>>
    /\ UNCHANGED <<addrVars, encVars>>

NextClassify == Classify

SpecClassify == InitClassify /\ [][NextClassify]_vars

(***************************************************************************)
(* EncodeAwareJoinAddress (internal/stringutil/addr.go:27-64).             *)
(*                                                                         *)
(* A display name is a record [raw, enc, fails]: the length of a.Name, the *)
(* length of the text the header encoder returns for it, and whether the   *)
(* header encoder returns an error for it. An address-spec is its length.  *)
(* buf is kept as the sequence of the tokens written, [t, n]: the kind of  *)
(* the token and its length in characters.                                 *)
(***************************************************************************)

\* The fold limit of lines 37 and 51.
FoldLimit == 76

Tok(t, n) == [t |-> t, n |-> n]
Comma == Tok("comma", 1)
Space == Tok("space", 1)
CRLF == Tok("crlf", 2)

\* flexibleHeaderEncoder.Encode (encode.go:261-274), the headerEncoder that is
\* passed in: the new column is startColumn + len(v) for the text v it returns.
HeaderEncoderEncode(start, name) == <<start + name.enc, name.enc>>

\* (&mail.Address{Address: a.Address}).String() of line 59: the address-spec
\* in angle brackets.
AddrPartLen(a) == a.Address + 2

\* Lines 28-32: the empty list returns "", otherwise col starts at startColumn.
JoinStart ==
    /\ apc = "start"
    /\ IF Len(addrs) = 0
       THEN apc' = "done" /\ UNCHANGED <<ai, col>>
       ELSE apc' = "sep" /\ ai' = 1 /\ col' = startColumn
    /\ UNCHANGED <<addrs, startColumn, abuf>>
    /\ UNCHANGED <<clsVars, encVars>>

\* Lines 34-44: the separator before every address but the first.
JoinSeparator ==
    /\ apc = "sep"
    /\ IF ai > 1
       THEN LET c1 == col + 1
                fold == c1 > FoldLimit
            IN  /\ abuf' = abuf \o <<Comma>>
                              \o (IF fold THEN <<CRLF>> ELSE <<>>) \o <<Space>>
                /\ col' = (IF fold THEN 0 ELSE c1) + 1
       ELSE UNCHANGED <<abuf, col>>
    /\ apc' = "name"
    /\ UNCHANGED <<addrs, startColumn, ai>>
    /\ UNCHANGED <<clsVars, encVars>>

\* Lines 45-58: the display name. "col, encoded, err :=" on line 46 declares a
\* new col in the block of the if statement: lines 51-57 read and assign that
\* one, and the function-level col keeps its value.
JoinName ==
    /\ apc = "name"
    /\ LET a == addrs[ai] IN
       IF a.Name.raw # 0
       THEN IF a.Name.fails
            THEN apc' = "failed" /\ abuf' = <<>>
            ELSE LET r == HeaderEncoderEncode(col, a.Name)
                     innerCol == r[1]
                 IN  /\ abuf' = abuf \o <<Tok("name", r[2])>>
                                   \o (IF innerCol > FoldLimit THEN <<CRLF>> ELSE <<>>)
                                   \o <<Space>>
                     /\ apc' = "addr"
       ELSE apc' = "addr" /\ UNCHANGED abuf
    /\ UNCHANGED <<addrs, startColumn, ai, col>>
    /\ UNCHANGED <<clsVars, encVars>>

\* Lines 59-63: the address-spec; after the last address the loop ends.
JoinAddrSpec ==
    /\ apc = "addr"
    /\ LET n == AddrPartLen(addrs[ai])
       IN  /\ abuf' = abuf \o <<Tok("addr", n)>>
           /\ col' = col + n
    /\ IF ai = Len(addrs)
       THEN apc' = "done" /\ UNCHANGED ai
       ELSE apc' = "sep" /\ ai' = ai + 1
    /\ UNCHANGED <<addrs, startColumn>>
    /\ UNCHANGED <<clsVars, encVars>>

\* Inputs: up to MaxAddrs addresses.
MaxAddrs == 3

NameValues ==
    { [raw |-> 0, enc |-> 0, fails |-> FALSE],     \* no display name
      [raw |-> 12, enc |-> 12, fails |-> FALSE],   \* an ASCII name, returned as it is
      [raw |-> 12, enc |-> 34, fails |-> FALSE],   \* a name returned as an encoded word
      [raw |-> 80, enc |-> 80, fails |-> FALSE],   \* a name longer than a line
      [raw |-> 5, enc |-> 0, fails |-> TRUE] }     \* the header encoder fails
AddressValues == {18, 48}
StartColumns == {0, 4, 70}

AddrInputs ==
    UNION {[1..k -> [Name : NameValues, Address : AddressValues]] : k \in 0..MaxAddrs}

InitJoin ==
    /\ addrs \in AddrInputs
    /\ startColumn \in StartColumns
    /\ apc = "start" /\ ai = 0 /\ col = 0 /\ abuf = <<>>
    /\ ClassifyIdle /\ EncIdle

NextJoin == JoinStart \/ JoinSeparator \/ JoinName \/ JoinAddrSpec

SpecJoin == InitJoin /\ [][NextJoin]_vars

(***************************************************************************)
(* The part tree serializer (encode.go:34-199, 233-294).                   *)
(*                                                                         *)
(* A header value is a record: form "text" (a value the caller set, raw    *)
(* its bytes), "id" (coding.ToIDHeader of type) or "mediatype" (what       *)
(* mime.FormatMediaType makes of type and the parameters that are not      *)
(* empty). A header map gives each header name its values, <<>> for a name *)
(* that is absent.                                                         *)
(***************************************************************************)

hnContentDisposition == "Content-Disposition"
hnContentID == "Content-Id"
hnContentEncoding == "Content-Transfer-Encoding"
hnContentType == "Content-Type"
hnSubject == "Subject"

\* The header names of the model, in the order sort.Strings gives them
\* (encode.go:147).
SortedHeaderNames ==
    <<hnContentDisposition, hnContentID, hnContentEncoding, hnContentType, hnSubject>>
HeaderNames == {SortedHeaderNames[i] : i \in 1..Len(SortedHeaderNames)}

cteBase64 == "base64"
cteQuotedPrintable == "quoted-printable"
utf8 == "utf-8"

HeaderValue(form, type, charset, name, boundary, filename, moddate, raw) ==
    [form |-> form, type |-> type, charset |-> charset, name |-> name,
     boundary |-> boundary, filename |-> filename, moddate |-> moddate, raw |-> raw]

\* A value the caller set, with its bytes.
TextValue(txt, raw) == HeaderValue("text", txt, "", "", "", "", "", raw)
NoValue == TextValue("", <<>>)

EmptyHeader == [h \in HeaderNames |-> <<>>]

\* textproto.MIMEHeader.Del and Set, as encode.go:48, 62, 64, 73, 86, 100 use them.
HeaderDel(h, k) == [h EXCEPT ![k] = <<>>]
HeaderSet(h, k, v) == [h EXCEPT ![k] = <<v>>]

\* stringutil.ToASCII (encode.go:79, 91): the file names of the model and
\* their transliterations.
ToASCII(name) == IF name = "r(e-acute)sum(e-acute).txt" THEN "resume.txt" ELSE name

\* mime.FormatMediaType returns "" for a type that is no token (encode.go:81-85
\* and 95-99 then fall back to the bare string).
FormatFails(type) == type = "not a type"

\* Lines 77-85 and 90-99: the formatted media type, or the bare string when
\* FormatMediaType fails. setParamValue (lines 227-231) leaves out an empty
\* parameter, which the record shows as "".
MediaTypeValue(type, charset, name, boundary, filename, moddate) ==
    IF FormatFails(type)
    THEN TextValue(type, <<>>)
    ELSE HeaderValue("mediatype", type, charset, name, boundary, filename, moddate, <<>>)

\* coding.ToIDHeader (encode.go:73): the content id in angle brackets.
IDValue(id) == HeaderValue("id", id, "", "", "", "", "", <<>>)

(***************************************************************************)
(* Encoders and their strategies (encode.go:34-39, 233-289). A strategy is *)
(* named: the default, or the one function the model's caller supplies.    *)
(***************************************************************************)
Options == {"transferEncodingDeterminer", "contentTypeDeterminer", "headerEncoderFactory"}

DefaultStrategy ==
    [transferEncodingDeterminer |-> "SelectTransferEncoding",
     contentTypeDeterminer |-> "TextContent",
     boundaryGenerator |-> "enmime-UUID",
     headerEncoderFactory |-> "newFlexibleHeaderEncoder"]

\* The functions the caller supplies: a classifier that always answers
\* TEQuoted, a predicate that always answers false, and a factory of header
\* encoders that return every value unchanged.
SuppliedStrategy ==
    [transferEncodingDeterminer |-> "alwaysQuoted",
     contentTypeDeterminer |-> "neverText",
     headerEncoderFactory |-> "rawHeaderEncoder"]

\* WithTransferEncodingDeterminer, WithContentTypeDeterminer and
\* WithHeaderEncoderFactory (lines 235-254): the function each returns, applied
\* to the encoder e.
ApplyOptionTo(e, o) == [e EXCEPT ![o] = SuppliedStrategy[o]]

\* NewEncoder (lines 280-287): the options are not read.
NewEncoderOf(options) == DefaultStrategy

\* var DefaultEncoder = NewEncoder() (line 289).
DefaultEncoder == NewEncoderOf({})

\* e.transferEncodingDeterminer(c, qlb)
DetermineTransferEncoding(e, c, qlb) ==
    IF e.transferEncodingDeterminer = "SelectTransferEncoding"
    THEN SelectTransferEncoding(c, qlb)
    ELSE TEQuoted

\* Part.TextContent: the part field textual is what it returns for the part.
TextContent(part) == part.textual

\* e.contentTypeDeterminer(p)
DetermineContentType(e, part) ==
    IF e.contentTypeDeterminer = "TextContent" THEN TextContent(part) ELSE FALSE

\* The boundary generator's n-th boundary (line 284).
GeneratedBoundaries == <<"enmime-1", "enmime-2", "enmime-3", "enmime-4", "enmime-5">>

\* headerEncoder.Encode(0, v) of line 155 for the encoder the factory of e
\* makes: the transfer encoding the value is written in. The flexible encoder
\* (lines 261-274) classifies the bytes of the value with quoteLineBreaks true;
\* a value made by setupMIMEHeaders is plain ASCII.
HeaderValueEncoding(e, v) ==
    IF e.headerEncoderFactory = "newFlexibleHeaderEncoder"
    THEN IF e.transferEncodingDeterminer = "SelectTransferEncoding"
         THEN IF v.form = "text" THEN SelectTransferEncoding(v.raw, TRUE) ELSE TE7Bit
         ELSE TEQuoted
    ELSE TE7Bit

(***************************************************************************)
(* setupMIMEHeaders (lines 43-103), with the nil check of lines 106-108.   *)
(***************************************************************************)

\* Line 48 left out: the Content-Transfer-Encoding header is kept.
TransferEncodingUnset(h) == h

\* Line 48: p.Header.Del(hnContentEncoding).
TransferEncodingDeleted(h) == HeaderDel(h, hnContentEncoding)

\* Lines 50-58: the transfer encoding of the content.
SelectedEncoding(e, part) ==
    IF Len(part.Content) > 0
    THEN IF DetermineContentType(e, part)
         THEN DetermineTransferEncoding(e, part.Content, FALSE)
         ELSE TEBase64
    ELSE TE7Bit

\* The part p as setupMIMEHeaders leaves it, gen being the boundary the
\* generator returns if it is called.
SetupPart(e, part, gen) ==
    LET h0 == TransferEncodingDeleted(part.Header)
        cte == SelectedEncoding(e, part)
        \* lines 55-57
        cs == IF Len(part.Content) > 0 /\ DetermineContentType(e, part) /\ part.Charset = ""
              THEN utf8 ELSE part.Charset
        \* lines 60-65
        h1 == IF Len(part.Content) = 0 THEN h0
              ELSE IF cte = TEBase64 THEN HeaderSet(h0, hnContentEncoding, TextValue(cteBase64, <<>>))
              ELSE IF cte = TEQuoted THEN HeaderSet(h0, hnContentEncoding, TextValue(cteQuotedPrintable, <<>>))
              ELSE h0
        \* lines 68-71
        bd == IF part.FirstChild # 0 /\ part.Boundary = "" THEN gen ELSE part.Boundary
        \* lines 72-74
        h2 == IF part.ContentID # "" THEN HeaderSet(h1, hnContentID, IDValue(part.ContentID)) ELSE h1
        \* lines 75-87
        h3 == IF part.ContentType # ""
              THEN HeaderSet(h2, hnContentType,
                       MediaTypeValue(part.ContentType, cs, ToASCII(part.FileName), bd, "", ""))
              ELSE h2
        \* lines 88-101
        h4 == IF part.Disposition # ""
              THEN HeaderSet(h3, hnContentDisposition,
                       MediaTypeValue(part.Disposition, "", "", "", ToASCII(part.FileName),
                                      part.FileModDate))
              ELSE h3
    IN  [part EXCEPT !.HeaderNil = FALSE, !.Header = h4, !.Charset = cs, !.Boundary = bd]

\* Whether setupMIMEHeaders calls the boundary generator (line 68).
NeedsBoundary(part) == part.FirstChild # 0 /\ part.Boundary = ""

\* The header lines encodeHeader writes for a part: for every name in sorted
\* order, every value of the name (lines 143-147, 152-153).
RECURSIVE HeaderLinesFrom(_, _)
HeaderLinesFrom(h, i) ==
    IF i > Len(SortedHeaderNames) THEN <<>>
    ELSE [j \in 1..Len(h[SortedHeaderNames[i]]) |->
              [name |-> SortedHeaderNames[i], v |-> h[SortedHeaderNames[i]][j]]]
         \o HeaderLinesFrom(h, i + 1)

HeaderLines(part) == HeaderLinesFrom(part.Header, 1)

(***************************************************************************)
(* What is written: a token is one argument of a b.Write call.             *)
(***************************************************************************)
Token(k, p, name, v, enc_, bytes, boundary, line) ==
    [k |-> k, p |-> p, name |-> name, v |-> v, te |-> enc_, bytes |-> bytes,
     boundary |-> boundary, line |-> line]

\* crnl (line 29)
Crnl == Token("crnl", 0, "", NoValue, "", <<>>, "", 0)

\* wb of lines 160-161: the header line "name: value\r\n", folded by
\* stringutil.Wrap, the value in the transfer encoding enc_.
HeaderLineToken(p, ln, enc_) == Token("header", p, ln.name, ln.v, enc_, <<>>, "", 0)

\* The content in the transfer encoding cte: for TEBase64 the line-th line of
\* the encoded text (lines 179-188), otherwise all of it (lines 190-196).
ContentToken(p, cte, bytes, line) == Token("content", p, "", NoValue, cte, bytes, "", line)

\* endMarker (line 125): "\r\n--" + p.Boundary + "--"
EndMarker(boundary) == Token("endMarker", 0, "", NoValue, "", <<>>, boundary, 0)

\* marker, written as endMarker itself: the last two bytes are not cut off.
MarkerUncut(boundary) == EndMarker(boundary)

\* marker (line 126): endMarker[:len(endMarker)-2], that is "\r\n--" + p.Boundary
Marker(boundary) == Token("marker", 0, "", NoValue, "", <<>>, boundary, 0)

\* enc.EncodedLen(len(p.Content)) (line 175) and the number of lines of at
\* most 76 characters the loop of lines 179-188 writes.
base64LineLen == 76
EncodedLen(n) == ((n + 2) \div 3) * 4
Base64Lines(n) == (EncodedLen(n) + base64LineLen - 1) \div base64LineLen

(***************************************************************************)
(* The bufio.Writer b of line 111 over the sink. bufio.NewWriter returns   *)
(* its argument when that is a bufio.Writer of the default size already,   *)
(* so the Encode calls on the children write to the same b. After a failed *)
(* write to the sink b keeps the error, and every later Write and Flush    *)
(* returns it without writing. When b passes its buffer on to the sink     *)
(* depends on the sizes written: the model lets it happen at any write.    *)
(***************************************************************************)

\* A write of the buffered tokens to the sink fails after n of them.
SinkFails(n) ==
    /\ sinkFaulty
    /\ n \in 0..Len(wbuf)
    /\ sink' = sink \o SubSeq(wbuf, 1, n)
    /\ wbuf' = SubSeq(wbuf, n + 1, Len(wbuf))
    /\ werr' = "write error"
    /\ sinkFailed' = TRUE

\* b.Write(tok) returns ret.
BWrite(tok, ret) ==
    IF werr # "nil"
    THEN ret = werr /\ UNCHANGED <<wbuf, werr, sink, sinkFailed>>
    ELSE \/ /\ ret = "nil"
            /\ wbuf' = Append(wbuf, tok)
            /\ UNCHANGED <<werr, sink, sinkFailed>>
         \/ /\ ret = "nil"
            /\ wbuf # <<>>
            /\ sink' = sink \o wbuf
            /\ wbuf' = <<tok>>
            /\ UNCHANGED <<werr, sinkFailed>>
         \/ /\ ret = "nil"
            /\ sink' = sink \o wbuf \o <<tok>>
            /\ wbuf' = <<>>
            /\ UNCHANGED <<werr, sinkFailed>>
         \/ /\ ret = "write error"
            /\ wbuf # <<>>
            /\ \E n \in 0..Len(wbuf) : SinkFails(n)
         \/ /\ ret = "write error"
            /\ wbuf = <<>>
            /\ sinkFaulty
            /\ werr' = "write error"
            /\ sinkFailed' = TRUE
            /\ UNCHANGED <<wbuf, sink>>

\* b.Flush() returns ret.
BFlush(ret) ==
    IF werr # "nil"
    THEN ret = werr /\ UNCHANGED <<wbuf, werr, sink, sinkFailed>>
    ELSE IF wbuf = <<>>
    THEN ret = "nil" /\ UNCHANGED <<wbuf, werr, sink, sinkFailed>>
    ELSE \/ /\ ret = "nil"
            /\ sink' = sink \o wbuf
            /\ wbuf' = <<>>
            /\ UNCHANGED <<werr, sinkFailed>>
         \/ /\ ret = "write error"
            /\ \E n \in 0..Len(wbuf) : SinkFails(n)

Errors == {"nil", "write error"}

(***************************************************************************)
(* The calls of Encode in progress. A frame is one call: its part p, its   *)
(* receiver e, its position pc, cte (line 109), the child c of the loop of *)
(* lines 127-135, the index hi of the header line and li of the base64     *)
(* line to write next, and err, the error it returns.                      *)
(***************************************************************************)
Frame(p, e) ==
    [p |-> p, e |-> e, pc |-> "setup", cte |-> TE7Bit, c |-> 0, hi |-> 1,
     li |-> 1, err |-> "nil"]

Top == stack[Len(stack)]
SetTop(f) == [stack EXCEPT ![Len(stack)] = f]
At(pc) == epc = "running" /\ stack # <<>> /\ Top.pc = pc

Returning(f, err) == [f EXCEPT !.pc = "return", !.err = err]

\* The encoder that Part.Encode hands the part to (lines 292-294).
PartEncodeEncoder == DefaultEncoder

\* The child after c (line 134).
NextChild(c) == parts[c].NextSibling

callerVars == <<input, requested, applied, enc, epc, sinkFaulty, result>>
bVars == <<wbuf, werr, sink, sinkFailed>>

\* Lines 106-111: the nil header is replaced, setupMIMEHeaders.
EncodeSetup ==
    /\ At("setup")
    /\ LET f == Top
           part == parts[f.p]
       IN  /\ parts' = [parts EXCEPT ![f.p] =
                           SetupPart(f.e, part, GeneratedBoundaries[nextBoundary + 1])]
           /\ nextBoundary' = IF NeedsBoundary(part) THEN nextBoundary + 1 ELSE nextBoundary
           /\ stack' = SetTop([f EXCEPT !.pc = "header", !.cte = SelectedEncoding(f.e, part)])
    /\ UNCHANGED <<callerVars, bVars>>
    /\ UNCHANGED <<clsVars, addrVars>>

\* encodeHeader (lines 142-168): one turn of the loop of lines 152-166, or
\* its end. The factories of the model return no error (lines 149-151) and
\* their encoders return none (lines 156-158).
EncodeHeaderLine ==
    /\ At("header")
    /\ LET f == Top
           lines == HeaderLines(parts[f.p])
       IN  IF f.hi > Len(lines)
           THEN /\ stack' = SetTop([f EXCEPT !.pc = "blank"])
                /\ UNCHANGED bVars
           ELSE \E ret \in Errors :
                   /\ BWrite(HeaderLineToken(f.p, lines[f.hi],
                                 HeaderValueEncoding(f.e, lines[f.hi].v)), ret)
                   /\ stack' = SetTop(IF ret # "nil" THEN Returning(f, ret)
                                      ELSE [f EXCEPT !.hi = f.hi + 1])
    /\ UNCHANGED <<callerVars, parts, nextBoundary>>
    /\ UNCHANGED <<clsVars, addrVars>>

\* Lines 115-116 without the write: the content follows the header directly.
EncodeNoBlankLine ==
    /\ At("blank")
    /\ stack' = SetTop([Top EXCEPT !.pc =
                  IF Len(parts[Top.p].Content) > 0 THEN "content" ELSE "children"])
    /\ UNCHANGED <<callerVars, parts, nextBoundary, bVars>>
    /\ UNCHANGED <<clsVars, addrVars>>

\* Lines 115-116: b.Write(crnl) before the content; what it returns is not read.
EncodeBlankLine ==
    /\ At("blank")
    /\ LET f == Top
       IN  IF Len(parts[f.p].Content) > 0
           THEN /\ \E ret \in Errors : BWrite(Crnl, ret)
                /\ stack' = SetTop([f EXCEPT !.pc = "content", !.li = 1])
           ELSE /\ stack' = SetTop([f EXCEPT !.pc = "children"])
                /\ UNCHANGED bVars
    /\ UNCHANGED <<callerVars, parts, nextBoundary>>
    /\ UNCHANGED <<clsVars, addrVars>>

\* encodeContent (lines 171-199): one checked write, for TEBase64 the write of
\* line 183. The quoted-printable writer passes the content on to b when it
\* is closed (lines 190-194).
EncodeContent ==
    /\ At("content")
    /\ LET f == Top
           bytes == parts[f.p].Content
       IN  IF f.cte = TEBase64 /\ f.li > Base64Lines(Len(bytes))
           THEN /\ stack' = SetTop([f EXCEPT !.pc = "children"])
                /\ UNCHANGED bVars
           ELSE \E ret \in Errors :
                   /\ BWrite(ContentToken(f.p, f.cte, bytes,
                                          IF f.cte = TEBase64 THEN f.li ELSE 0), ret)
                   /\ stack' = SetTop(IF ret # "nil" THEN Returning(f, ret)
                                      ELSE IF f.cte = TEBase64
                                           THEN [f EXCEPT !.pc = "b64crnl"]
                                           ELSE [f EXCEPT !.pc = "children"])
    /\ UNCHANGED <<callerVars, parts, nextBoundary>>
    /\ UNCHANGED <<clsVars, addrVars>>

\* Lines 186-187: b.Write(crnl) after a base64 line; what it returns is not read.
EncodeBase64Break ==
    /\ At("b64crnl")
    /\ \E ret \in Errors : BWrite(Crnl, ret)
    /\ stack' = SetTop([Top EXCEPT !.pc = "content", !.li = Top.li + 1])
    /\ UNCHANGED <<callerVars, parts, nextBoundary>>
    /\ UNCHANGED <<clsVars, addrVars>>

\* b.Flush() with its result dropped: the call returns nil.
EncodeFlushUnchecked ==
    /\ At("flush")
    /\ \E ret \in Errors : BFlush(ret)
    /\ stack' = SetTop(Returning(Top, "nil"))
    /\ UNCHANGED <<callerVars, parts, nextBoundary>>
    /\ UNCHANGED <<clsVars, addrVars>>

\* Lines 122 and 138: return b.Flush().
EncodeFlush ==
    /\ At("flush")
    /\ \E ret \in Errors :
          /\ BFlush(ret)
          /\ stack' = SetTop(Returning(Top, ret))
    /\ UNCHANGED <<callerVars, parts, nextBoundary>>
    /\ UNCHANGED <<clsVars, addrVars>>

\* Lines 121-127: a part without children is flushed, otherwise the loop over
\* the children starts at the first one.
EncodeChildren ==
    /\ At("children")
    /\ LET f == Top
       IN  stack' = SetTop(IF parts[f.p].FirstChild = 0
                           THEN [f EXCEPT !.pc = "flush"]
                           ELSE [f EXCEPT !.pc = "marker", !.c = parts[f.p].FirstChild])
    /\ UNCHANGED <<callerVars, parts, nextBoundary, bVars>>
    /\ UNCHANGED <<clsVars, addrVars>>

\* Line 129: b.Write(marker) before a child; what it returns is not read.
EncodeMarker ==
    /\ At("marker")
    /\ Top.c # 0
    /\ \E ret \in Errors : BWrite(Marker(parts[Top.p].Boundary), ret)
    /\ stack' = SetTop([Top EXCEPT !.pc = "markercrnl"])
    /\ UNCHANGED <<callerVars, parts, nextBoundary>>
    /\ UNCHANGED <<clsVars, addrVars>>

\* Line 130: b.Write(crnl) after the marker.
EncodeMarkerBreak ==
    /\ At("markercrnl")
    /\ \E ret \in Errors : BWrite(Crnl, ret)
    /\ stack' = SetTop([Top EXCEPT !.pc = "call"])
    /\ UNCHANGED <<callerVars, parts, nextBoundary>>
    /\ UNCHANGED <<clsVars, addrVars>>

\* Line 131: c.Encode(b), which is Part.Encode (lines 292-294).
EncodeChild ==
    /\ At("call")
    /\ stack' = Append(SetTop([Top EXCEPT !.pc = "called"]),
                       Frame(Top.c, PartEncodeEncoder))
    /\ UNCHANGED <<callerVars, parts, nextBoundary, bVars>>
    /\ UNCHANGED <<clsVars, addrVars>>

\* Line 136: b.Write(endMarker) after the last child.
EncodeEndMarker ==
    /\ At("marker")
    /\ Top.c = 0
    /\ \E ret \in Errors : BWrite(EndMarker(parts[Top.p].Boundary), ret)
    /\ stack' = SetTop([Top EXCEPT !.pc = "endcrnl"])
    /\ UNCHANGED <<callerVars, parts, nextBoundary>>
    /\ UNCHANGED <<clsVars, addrVars>>

\* Line 137: b.Write(crnl) after the end marker.
EncodeEndBreak ==
    /\ At("endcrnl")
    /\ \E ret \in Errors : BWrite(Crnl, ret)
    /\ stack' = SetTop([Top EXCEPT !.pc = "flush"])
    /\ UNCHANGED <<callerVars, parts, nextBoundary>>
    /\ UNCHANGED <<clsVars, addrVars>>

\* A call returns: to the caller of the top-level call, or to line 131 of the
\* parent's call, which returns the error (lines 131-133) or goes on to the
\* next sibling (line 134).
EncodeReturn ==
    /\ At("return")
    /\ LET f == Top
           rest == SubSeq(stack, 1, Len(stack) - 1)
       IN  IF rest = <<>>
           THEN /\ stack' = <<>>
                /\ result' = f.err
                /\ epc' = "returned"
           ELSE LET parent == rest[Len(rest)]
                IN  /\ stack' = [rest EXCEPT ![Len(rest)] =
                                    IF f.err # "nil" THEN Returning(parent, f.err)
                                    ELSE [parent EXCEPT !.pc = "marker",
                                                        !.c = NextChild(parent.c)]]
                    /\ UNCHANGED <<result, epc>>
    /\ UNCHANGED <<input, requested, applied, enc, sinkFaulty, parts, nextBoundary, bVars>>
    /\ UNCHANGED <<clsVars, addrVars>>

(***************************************************************************)
(* The caller: it builds an encoder and calls Encode on the root once.     *)
(***************************************************************************)
runVars == <<input, parts, stack, wbuf, werr, sink, sinkFaulty, sinkFailed, nextBoundary, result>>

\* The option lists of the model's callers: none, or one option.
CallerOptions == {{}} \cup {{o} : o \in Options}

\* enc := NewEncoder(options...)
NewEncoder(options) ==
    /\ epc = "new"
    /\ requested' = options
    /\ enc' = NewEncoderOf(options)
    /\ epc' = "built"
    /\ UNCHANGED <<applied, runVars>>
    /\ UNCHANGED <<clsVars, addrVars>>

\* enc = WithX(f)(enc): a caller that passed no option to NewEncoder applies
\* one to its encoder itself.
ApplyOption(o) ==
    /\ epc = "built"
    /\ requested = {}
    /\ applied = {}
    /\ enc' = ApplyOptionTo(enc, o)
    /\ applied' = applied \cup {o}
    /\ UNCHANGED <<requested, epc, runVars>>
    /\ UNCHANGED <<clsVars, addrVars>>

\* enc.Encode(root, sink)
CallEncode ==
    /\ epc = "built"
    /\ stack' = <<Frame(1, enc)>>
    /\ epc' = "running"
    /\ UNCHANGED <<input, requested, applied, enc, parts, wbuf, werr, sink,
                   sinkFaulty, sinkFailed, nextBoundary, result>>
    /\ UNCHANGED <<clsVars, addrVars>>

\* root.Encode(sink) (lines 292-294)
CallPartEncode ==
    /\ epc = "new"
    /\ stack' = <<Frame(1, PartEncodeEncoder)>>
    /\ epc' = "running"
    /\ UNCHANGED <<input, requested, applied, enc, parts, wbuf, werr, sink,
                   sinkFaulty, sinkFailed, nextBoundary, result>>
    /\ UNCHANGED <<clsVars, addrVars>>

(***************************************************************************)
(* Inputs: the part trees the caller has built.                            *)
(***************************************************************************)

\* The most parts of a tree.
MaxParts == 3

\* "Hi\r\n", nine letters and one 0xE9, and 0xE9 0x00 0x61: contents that
\* SelectTransferEncoding(c, false) makes TE7Bit, TEQuoted and TEBase64.
PlainContent == <<72, 105, 13, 10>>
QuotableContent == <<97, 98, 99, 100, 101, 102, 103, 104, 105, 233>>
BinaryContent == <<233, 0, 97>>
ContentValues == {<<>>, PlainContent, QuotableContent, BinaryContent}

\* Content types with what Part.TextContent returns for a part of the type.
TypeValues ==
    { [ContentType |-> "", textual |-> TRUE],
      [ContentType |-> "text/plain", textual |-> TRUE],
      [ContentType |-> "image/png", textual |-> FALSE],
      [ContentType |-> "not a type", textual |-> FALSE] }

\* The Content-Transfer-Encoding a part carries before the call: none, or one
\* left by an earlier Encode or set by the caller.
StaleEncodings == {"", cteBase64, cteQuotedPrintable, "7bit"}

\* A part with no header but perhaps a Content-Transfer-Encoding, and nothing
\* but its content and content type set.
BarePart(c, t, stale) ==
    [HeaderNil |-> stale = "",
     Header |-> IF stale = "" THEN EmptyHeader
                ELSE HeaderSet(EmptyHeader, hnContentEncoding, TextValue(stale, <<>>)),
     Content |-> c, Charset |-> "", ContentType |-> t.ContentType,
     textual |-> t.textual, Boundary |-> "", ContentID |-> "", Disposition |-> "",
     FileName |-> "", FileModDate |-> "", FirstChild |-> 0, NextSibling |-> 0]

\* "Hola" and "¡Hola!" in UTF-8.
SubjectValues == <<TextValue("Hola", <<72, 111, 108, 97>>),
                   TextValue("(inverted !)Hola!", <<194, 161, 72, 111, 108, 97, 33>>)>>

\* The same part as an attachment with a content id, a charset, a file name, a
\* modification date and a Subject header of two values.
FullPart(c, t, stale) ==
    [BarePart(c, t, stale) EXCEPT
        !.HeaderNil = FALSE,
        !.Header = [@ EXCEPT ![hnSubject] = SubjectValues],
        !.Charset = "iso-8859-1", !.ContentID = "cid-1", !.Disposition = "attachment",
        !.FileName = "r(e-acute)sum(e-acute).txt", !.FileModDate = "01 Jan 20 00:00 UTC"]

SingleParts ==
    {BarePart(c, t, s) : c \in ContentValues, t \in TypeValues, s \in StaleEncodings}
        \cup {FullPart(c, t, s) : c \in ContentValues, t \in TypeValues, s \in StaleEncodings}

\* The roots of the trees of two parts and more: a multipart with content and
\* a boundary the caller set, and one with neither.
RootValues ==
    { [BarePart(PlainContent, [ContentType |-> "multipart/alternative", textual |-> TRUE], "")
          EXCEPT !.Boundary = "enmime-1234567890-parent", !.HeaderNil = FALSE],
      BarePart(<<>>, [ContentType |-> "multipart/mixed", textual |-> TRUE], cteBase64) }

\* The parts under the root, by variant v and handle i.
ChildValues ==
    << BarePart(PlainContent, [ContentType |-> "text/plain", textual |-> TRUE], ""),
       FullPart(BinaryContent, [ContentType |-> "image/png", textual |-> FALSE], ""),
       BarePart(QuotableContent, [ContentType |-> "text/html", textual |-> TRUE], cteBase64),
       BarePart(<<>>, [ContentType |-> "", textual |-> TRUE], "") >>

ChildValue(v, i) == ChildValues[((v + i) % Len(ChildValues)) + 1]

\* The shapes of a tree of n parts: par[i] < i is the parent of part i.
Shapes(n) == {par \in [2..n -> 1..(n - 1)] : \A i \in 2..n : par[i] < i}

Least(S) == IF S = {} THEN 0 ELSE CHOOSE x \in S : \A y \in S : x <= y

\* The tree of the shape par: children in the order of their handles, linked
\* by FirstChild and NextSibling.
Tree(n, par, root, v) ==
    [i \in 1..n |->
        [(IF i = 1 THEN root ELSE ChildValue(v, i)) EXCEPT
            !.FirstChild = Least({j \in 2..n : par[j] = i}),
            !.NextSibling = IF i = 1 THEN 0
                            ELSE Least({j \in (i + 1)..n : par[j] = par[i]})]]

Trees ==
    {<<p>> : p \in SingleParts}
        \cup UNION {{Tree(n, par, root, v) :
                        par \in Shapes(n), root \in RootValues, v \in 1..Len(ChildValues)} :
                    n \in 2..MaxParts}

InitEncode ==
    /\ input \in Trees
    /\ parts = input
    /\ sinkFaulty \in BOOLEAN
    /\ requested = {} /\ applied = {} /\ enc = DefaultEncoder /\ epc = "new"
    /\ stack = <<>> /\ wbuf = <<>> /\ werr = "nil" /\ sink = <<>>
    /\ sinkFailed = FALSE /\ nextBoundary = 0 /\ result = "none"
    /\ ClassifyIdle /\ AddrIdle

NextEncode ==
    \/ \E options \in CallerOptions : NewEncoder(options)
    \/ \E o \in Options : ApplyOption(o)
    \/ CallEncode
    \/ CallPartEncode
    \/ EncodeSetup
    \/ EncodeHeaderLine
    \/ EncodeBlankLine
    \/ EncodeContent
    \/ EncodeBase64Break
    \/ EncodeChildren
    \/ EncodeMarker
    \/ EncodeMarkerBreak
    \/ EncodeChild
    \/ EncodeEndMarker
    \/ EncodeEndBreak
    \/ EncodeFlush
    \/ EncodeReturn

SpecEncode == InitEncode /\ [][NextEncode]_vars

(***************************************************************************)
(* Properties of the part tree serializer.                                 *)
(***************************************************************************)

\* A token without the transfer encoding of a header value.
Structure(t) == IF t.k = "header" THEN [t EXCEPT !.te = ""] ELSE t

\* The header block of part p: its header lines in sorted order.
HeaderBlockOf(p) ==
    LET lines == HeaderLines(parts[p])
    IN  [i \in 1..Len(lines) |-> HeaderLineToken(p, lines[i], "")]

\* The transfer encoding the Content-Transfer-Encoding header of p names.
NamedEncoding(p) ==
    LET h == parts[p].Header[hnContentEncoding]
    IN  IF h = <<>> THEN TE7Bit
        ELSE IF h[1].type = cteBase64 THEN TEBase64
        ELSE IF h[1].type = cteQuotedPrintable THEN TEQuoted
        ELSE TE7Bit

\* The blank line and the encoded content of part p, nothing for no content.
RECURSIVE Base64LinesFrom(_, _)
Base64LinesFrom(p, i) ==
    IF i > Base64Lines(Len(parts[p].Content)) THEN <<>>
    ELSE <<ContentToken(p, TEBase64, parts[p].Content, i), Crnl>> \o Base64LinesFrom(p, i + 1)

BodyOf(p) ==
    IF parts[p].Content = <<>> THEN <<>>
    ELSE IF NamedEncoding(p) = TEBase64 THEN <<Crnl>> \o Base64LinesFrom(p, 1)
    ELSE <<Crnl, ContentToken(p, NamedEncoding(p), parts[p].Content, 0)>>

\* CRLF "--" B, CRLF and CRLF "--" B "--", CRLF as the tokens of the sink.
DashBoundary(b) ==
    [k |-> "marker", p |-> 0, name |-> "", v |-> NoValue, te |-> "", bytes |-> <<>>,
     boundary |-> b, line |-> 0]
CloseBoundary(b) == [DashBoundary(b) EXCEPT !.k = "endMarker"]
OpeningDelimiter(b) == <<DashBoundary(b), Crnl>>
ClosingDelimiter(b) == <<CloseBoundary(b), Crnl>>

\* The complete encoding of part p: its header block, its body, and for a
\* part with children each child in sibling order after the delimiter
\* CRLF "--" B CRLF, then the closing delimiter CRLF "--" B "--" CRLF.
RECURSIVE EncodingOf(_), DelimitedFrom(_, _)
EncodingOf(p) ==
    HeaderBlockOf(p) \o BodyOf(p)
        \o (IF parts[p].FirstChild = 0 THEN <<>> ELSE DelimitedFrom(p, parts[p].FirstChild))
DelimitedFrom(p, c) ==
    IF c = 0
    THEN ClosingDelimiter(parts[p].Boundary)
    ELSE OpeningDelimiter(parts[p].Boundary) \o EncodingOf(c)
             \o DelimitedFrom(p, parts[c].NextSibling)

RECURSIVE SiblingsFrom(_)
SiblingsFrom(c) == IF c = 0 THEN {} ELSE {c} \cup SiblingsFrom(parts[c].NextSibling)
ChildrenOf(p) == SiblingsFrom(parts[p].FirstChild)

Occurrences(tok) == Cardinality({i \in 1..Len(sink) : sink[i] = tok})

\* C1: when Encode has returned nil, the sink holds the complete encoding of
\* the root, in which every part with children is written as its header
\* block and body, then for each child in sibling order the delimiter
\* CRLF "--" B CRLF and the complete encoding of the child, then one closing
\* delimiter CRLF "--" B "--" CRLF; a part with n children has n opening
\* delimiters and one closing delimiter in the sink.
C1_MultipartOrder ==
    result = "nil" =>
        /\ [i \in 1..Len(sink) |-> Structure(sink[i])] = EncodingOf(1)
        /\ \A p \in 1..Len(parts) :
              parts[p].FirstChild # 0 =>
                  /\ Occurrences(DashBoundary(parts[p].Boundary)) = Cardinality(ChildrenOf(p))
                  /\ Occurrences(CloseBoundary(parts[p].Boundary)) = 1

\* C1 witness: Encode has returned nil for a root that has content and two
\* children.
C1_Witness ==
    /\ result = "nil"
    /\ Len(parts) = 3
    /\ Cardinality(ChildrenOf(1)) = 2
    /\ parts[1].Content # <<>>

\* The root is a part with content and no children whose header map is empty
\* when the header block is written, the part the caller passed having no
\* header, content type, disposition or content id.
ContentOnlyRoot ==
    /\ Len(input) = 1
    /\ input[1].Content # <<>>
    /\ HeaderLines(input[1]) = <<>>
    /\ input[1].ContentType = "" /\ input[1].Disposition = "" /\ input[1].ContentID = ""
    /\ HeaderLines(parts[1]) = <<>>

\* C2 as stated: encoding a part with only content, classified Identity,
\* writes exactly the content bytes, with no blank line before them.
C2_Original ==
    (result = "nil" /\ ContentOnlyRoot) =>
        sink = <<ContentToken(1, TE7Bit, parts[1].Content, 0)>>

\* C2 amended: encoding a part with only content, classified Identity, writes
\* one CRLF and then exactly the content bytes: no header block, but the
\* blank line that precedes every non-empty content.
C2_BlankLineThenContent ==
    (result = "nil" /\ ContentOnlyRoot) =>
        sink = <<Crnl, ContentToken(1, TE7Bit, parts[1].Content, 0)>>

\* C2 witness: Encode has returned nil for a part with nothing but content.
C2_Witness ==
    /\ result = "nil" /\ ContentOnlyRoot
    /\ input[1].HeaderNil
    /\ input[1].Content = PlainContent

\* C6: the encoder NewEncoder returns for a list of options encodes with the
\* strategy each option supplies, and with the defaults for no options.
C6_OptionsUsed ==
    (epc = "running" /\ applied = {}) =>
        /\ \A o \in requested : stack[1].e[o] = SuppliedStrategy[o]
        /\ requested = {} => stack[1].e = DefaultStrategy

\* C7: once a write to the sink has failed, the sink receives nothing more, and
\* the top-level Encode returns an error.
C7_SinkFailureIsFatal ==
    /\ [](sinkFailed /\ epc = "returned" => result # "nil")
    /\ [][sinkFailed => sink' = sink]_vars

\* C7 witness: the top-level Encode of a tree of three parts has returned the
\* error of a write to the sink that failed after part of the output.
C7_Witness ==
    /\ epc = "returned" /\ result = "write error" /\ sinkFailed
    /\ Len(parts) = 3
    /\ sink # <<>>

\* The Content-Transfer-Encoding header that C9 gives a part: none for empty
\* content and for text-eligible content classified Identity, "base64" for
\* content that is not text-eligible or is classified Base64, and
\* "quoted-printable" for text-eligible content classified QuotedPrintable.
ClaimedEncodingHeader(e, part) ==
    LET eligible == DetermineContentType(e, part)
        class == DetermineTransferEncoding(e, part.Content, FALSE)
    IN  IF part.Content = <<>> THEN <<>>
        ELSE IF ~eligible \/ class = TEBase64 THEN <<TextValue(cteBase64, <<>>)>>
        ELSE IF class = TEQuoted THEN <<TextValue(cteQuotedPrintable, <<>>)>>
        ELSE <<>>

\* C9: after the setup step of an Encode call, whatever
\* Content-Transfer-Encoding the part carried before, its header is the one
\* the content, the eligibility predicate and the classifier give.
C9_TransferEncodingHeader ==
    \A i \in 1..Len(stack) :
        stack[i].pc # "setup" =>
            parts[stack[i].p].Header[hnContentEncoding]
                = ClaimedEncodingHeader(stack[i].e, input[stack[i].p])

\* C9 witness: a call on the default encoder is past its setup step for a part
\* that came with "base64" and whose content is text-eligible and classified
\* Identity.
C9_Witness ==
    /\ stack # <<>>
    /\ Top.pc = "header"
    /\ input[Top.p].Header[hnContentEncoding] = <<TextValue(cteBase64, <<>>)>>
    /\ input[Top.p].Content = PlainContent
    /\ input[Top.p].textual
    /\ Top.e = DefaultEncoder

\* C10: every call of Encode in progress, for the root and for every
\* descendant, runs on the encoder the top-level call was made on.
C10_DescendantsUseReceiver ==
    \A i \in 1..Len(stack) : stack[i].e = stack[1].e

(***************************************************************************)
(* Properties of the address list formatter.                               *)
(***************************************************************************)

\* The index of the last CRLF among the first j tokens of buf, 0 if none.
LastBreak(buf, j) ==
    LET S == {i \in 1..j : buf[i].t = "crlf"}
    IN  IF S = {} THEN 0 ELSE CHOOSE i \in S : \A k \in S : k <= i

RECURSIVE SumLen(_, _, _)
SumLen(buf, from, to) ==
    IF from > to THEN 0 ELSE buf[from].n + SumLen(buf, from + 1, to)

\* The number of characters on the physical line that token j ends, counted
\* from start on the first line and from the character after a CRLF later.
LineLenAt(buf, start, j) ==
    LET b == LastBreak(buf, j)
    IN  (IF b = 0 THEN start ELSE 0) + SumLen(buf, b + 1, j)

\* The tokens i and j are on the same physical line.
SameLine(buf, i, j) ==
    /\ buf[i].t # "crlf" /\ buf[j].t # "crlf"
    /\ LastBreak(buf, i) = LastBreak(buf, j)

\* C5: in the string EncodeAwareJoinAddress returns, no physical line exceeds
\* 76 characters unless a single token on that line (an encoded display name
\* or an address-spec) is itself longer than 76 characters.
C5_NoLineOver76 ==
    apc = "done" =>
        \A j \in 1..Len(abuf) :
            abuf[j].t # "crlf" =>
                \/ LineLenAt(abuf, startColumn, j) <= 76
                \/ \E i \in 1..Len(abuf) :
                       /\ SameLine(abuf, i, j)
                       /\ abuf[i].t \in {"name", "addr"}
                       /\ abuf[i].n > 76

\* C8: wherever the loop is about to make a fold decision, col equals the
\* number of characters emitted on the current physical line; and in the
\* output a CRLF follows a comma exactly when the line, the comma included,
\* is longer than 76 characters.
C8_ColumnIsLineLength ==
    /\ apc \in {"sep", "name"} => col = LineLenAt(abuf, startColumn, Len(abuf))
    /\ \A j \in 1..Len(abuf) - 1 :
           abuf[j].t = "comma" =>
               (abuf[j + 1].t = "crlf" <=> LineLenAt(abuf, startColumn, j) > 76)

(***************************************************************************)
(* Properties of the classifier.                                           *)
(***************************************************************************)

\* Printable ASCII, tab, CR or LF.
PlainOrLineBreak(b) == (32 <= b /\ b <= 126) \/ b = 9 \/ b = 13 \/ b = 10

\* The number k of non-plain bytes of c: bytes outside 0x20-0x7E other than
\* tab, CR and LF counting only when qlb is true.
NonPlainCount(c, qlb) ==
    Cardinality({i \in 1..Len(c) :
        /\ ~(32 <= c[i] /\ c[i] <= 126)
        /\ c[i] # 9
        /\ (c[i] \in {10, 13} => qlb)})

\* floor(20 * n / 100)
Threshold(c) == (20 * Len(c)) \div 100

\* C3: for every content c (the empty one included), SelectTransferEncoding(c,
\* false) returns TE7Bit if and only if every byte of c is printable ASCII, a
\* tab, a CR or an LF.
C3_IdentityIffPlain ==
    (te # "none" /\ ~quoteLineBreaks) =>
        (te = TE7Bit <=> \A i \in 1..Len(content) : PlainOrLineBreak(content[i]))

\* C3 witness: a call with quoteLineBreaks false on a content holding a CR and
\* an LF has returned TE7Bit.
C3_Witness ==
    /\ te = TE7Bit /\ ~quoteLineBreaks
    /\ \E i, j \in 1..Len(content) : content[i] = 13 /\ content[j] = 10

\* C4 as stated: for every non-empty content with k non-plain bytes and
\* threshold floor(20*n/100), k >= threshold gives TEBase64 and otherwise k > 0
\* gives TEQuoted, which is also what a classifier that compares k with the
\* threshold only after scanning all of c returns.
C4_Original ==
    (te # "none" /\ Len(content) > 0) =>
        LET k == NonPlainCount(content, quoteLineBreaks)
        IN  /\ (k >= Threshold(content) => te = TEBase64)
            /\ (k < Threshold(content) /\ k > 0 => te = TEQuoted)

\* C4 amended: for every non-empty content, the classifier returns TE7Bit when
\* k = 0, TEBase64 when k > 0 and k >= threshold, and TEQuoted when
\* 0 < k < threshold: the result of comparing k with the threshold after a
\* scan of all of c, the comparison being made only when k > 0.
C4_ThresholdRule ==
    (te # "none" /\ Len(content) > 0) =>
        LET k == NonPlainCount(content, quoteLineBreaks)
        IN  te = IF k = 0 THEN TE7Bit
                 ELSE IF k >= Threshold(content) THEN TEBase64 ELSE TEQuoted

\* C4 witness: the scan has returned TEBase64 on a content whose threshold is 2
\* or more and whose last byte is plain, so the early exit left bytes unread.
C4_Witness ==
    /\ te = TEBase64 /\ Threshold(content) >= 2
    /\ content[Len(content)] = 97
    /\ NonPlainCount(content, quoteLineBreaks) = Threshold(content)

====
